---- MODULE Spec2Model ----
(***************************************************************************)
(* A model of combinetxt.py: TextFileCombiner groups the *.txt files of an *)
(* input directory by the URL of their first line and concatenates each    *)
(* group into one output file.                                             *)
(*                                                                         *)
(* Text is modelled at character level: a Python str is a tuple of         *)
(* one-character strings, so that strip(), readline(), re.match() and      *)
(* startswith() are computed as Python computes them.                      *)
(***************************************************************************)
EXTENDS Integers, Sequences, FiniteSets, TLC

(***************************************************************************)
(* Bounds of the model.                                                    *)
(***************************************************************************)
\* number of scraped *.txt files in the input directory, for one run
NumFiles == 3
\* number of scraped *.txt files in the input directory, for repeated runs
RerunFiles == 2
\* number of times the program is run on the same directories
MaxRuns == 2
\* longest path tail appended to a registered prefix in the URL inputs
MaxTail == 1

(***************************************************************************)
(* String literals of the program.                                         *)
(***************************************************************************)
Base == <<"h","t","t","p","s",":","/","/","d","o","c","s",".","n","8","n",".","i","o","/","i","n","t","e","g","r","a","t","i","o","n","s","/","b","u","i","l","t","i","n","/">>
CoreNodes == <<"c","o","r","e","-","n","o","d","e","s">>
AppNodes == <<"a","p","p","-","n","o","d","e","s">>
TriggerNodes == <<"t","r","i","g","g","e","r","-","n","o","d","e","s">>
ClusterNodes == <<"c","l","u","s","t","e","r","-","n","o","d","e","s">>
Credentials == <<"c","r","e","d","e","n","t","i","a","l","s">>
SourceTag == <<"S","o","u","r","c","e"," ","U","R","L",":"," ">>
GroupHeaderL == <<"#","#","#"," ","C","o","m","b","i","n","e","d"," ","C","o","n","t","e","n","t"," ","f","o","r"," ">>
GroupHeaderR == <<" ","#","#","#","\n","\n">>
OtherHeader == <<"#","#","#"," ","C","o","n","t","e","n","t"," ","f","r","o","m"," ","O","t","h","e","r"," ","U","R","L","s"," ","#","#","#","\n","\n">>
TxtExt == <<".","t","x","t">>
OtherName == <<"o","t","h","e","r","_","c","o","n","t","e","n","t",".","t","x","t">>
\* '=' * 80
DelimWidth == 80
Delim == [i \in 1..DelimWidth |-> "="]
\* f"\n{'=' * 80}\n"
Separator == <<"\n">> \o Delim \o <<"\n">>

\* Python's None; no str equals it, since every character is a 1-character string
None == <<"None">>

\* self.url_patterns as built by __init__, in declaration (dict insertion) order
ShippedPatterns ==
    << [name |-> CoreNodes,    pattern |-> Base \o CoreNodes \o <<"/">>],
       [name |-> AppNodes,     pattern |-> Base \o AppNodes \o <<"/">>],
       [name |-> TriggerNodes, pattern |-> Base \o TriggerNodes \o <<"/">>],
       [name |-> ClusterNodes, pattern |-> Base \o ClusterNodes \o <<"/">>],
       [name |-> Credentials,  pattern |-> Base \o Credentials \o <<"/">>] >>

\* a table a caller may assign to the public attribute url_patterns: its
\* prefixes overlap, so that declaration order decides
OverlappingPatterns ==
    << [name |-> CoreNodes,   pattern |-> Base \o CoreNodes \o <<"/">>],
       [name |-> AppNodes,    pattern |-> Base],
       [name |-> Credentials, pattern |-> Base \o Credentials \o <<"/">>] >>

(***************************************************************************)
(* Python string operations.                                               *)
(***************************************************************************)
SetMin(S) == CHOOSE x \in S : \A y \in S : x <= y
SetMax(S) == CHOOSE x \in S : \A y \in S : x >= y

\* str.isspace() of one character, over the characters the model uses
IsSpace(c) == c \in {" ", "\t", "\n", "\r"}

\* str.strip(): leading and trailing whitespace removed
strip(s) ==
    LET keep == {i \in 1..Len(s) : ~IsSpace(s[i])}
    IN  IF keep = {} THEN <<>> ELSE SubSeq(s, SetMin(keep), SetMax(keep))

\* the whole text instead of its first line
readline_whole(content) == content

\* f.readline() on a freshly opened file: up to and including the first newline
readline(content) ==
    LET nl == {i \in 1..Len(content) : content[i] = "\n"}
    IN  IF nl = {} THEN content ELSE SubSeq(content, 1, SetMin(nl))

\* re.match(r"Source URL: (.+)", line): group(1) on a match, None otherwise.
\* The match is anchored at the start; '.' is any character but a newline
\* and '+' is greedy.
re_match(line) ==
    LET n  == Len(SourceTag)
        nl == {i \in (n + 1)..Len(line) : line[i] = "\n"}
        e  == IF nl = {} THEN Len(line) ELSE SetMin(nl) - 1
    IN  IF Len(line) > n /\ SubSeq(line, 1, n) = SourceTag /\ e > n
        THEN SubSeq(line, n + 1, e)
        ELSE None

\* str.startswith
startswith(s, prefix) ==
    Len(s) >= Len(prefix) /\ SubSeq(s, 1, Len(prefix)) = prefix

\* the body of get_source_url's try block, on the text of the file
extract_url(content) == re_match(strip(readline(content)))

(***************************************************************************)
(* The state: the combiner's attributes, the file system, the locals of    *)
(* combine_files and the console.                                          *)
(***************************************************************************)
VARIABLES
    url_patterns,   \* self.url_patterns: sequence of [name, pattern]
    input_dir,      \* self.input_dir
    output_dir,     \* self.output_dir
    disk,           \* the files: path |-> text, a path being [dir, name]
    extract_fails,  \* paths whose open/readline raises in get_source_url
    write_fails,    \* paths whose open/read raises in the write phase
    pc,             \* position of the program
    runs,           \* completed runs of combine_files
    text_files,     \* combine_files: the glob result
    idx,            \* combine_files: index of the next file of the first loop
    grouped_files,  \* combine_files: defaultdict(list), as [group, files] in insertion order
    other_files,    \* combine_files: list of <<file_path, url>>
    gidx,           \* combine_files: index of the next group of the second loop
    console,        \* lines printed by the current run
    opened,         \* open(output_file, 'w') calls of the current run, in order
    copied,         \* content = in_f.read() results written in the current run
    snapshot,       \* the files as they were when the current run started
    arg,            \* argument of a direct call of get_file_group
    ret             \* its result

vars == << url_patterns, input_dir, output_dir, disk, extract_fails, write_fails,
           pc, runs, text_files, idx, grouped_files, other_files, gidx,
           console, opened, copied, snapshot, arg, ret >>

\* os.path.join(dir, name)
join(dir, name) == [dir |-> dir, name |-> name]

\* get_file_group's loop over self.url_patterns.items(), from entry i on
RECURSIVE first_match(_, _)
first_match(url, i) ==
    IF i > Len(url_patterns) THEN None
    ELSE IF startswith(url, url_patterns[i].pattern) THEN url_patterns[i].name
    ELSE first_match(url, i + 1)

\* the last matching entry instead of the first
get_file_group_last(url) ==
    LET m == {i \in 1..Len(url_patterns) : startswith(url, url_patterns[i].pattern)}
    IN  IF url = None \/ url = <<>> \/ m = {} THEN None
        ELSE url_patterns[SetMax(m)].name

\* get_file_group(self, url); "not url" is true of None and of the empty str
get_file_group(url) ==
    IF url = None \/ url = <<>> THEN None ELSE first_match(url, 1)

\* get_source_url(self, file_path): None when the read raises
get_source_url(file_path) ==
    IF file_path \in extract_fails \/ file_path \notin DOMAIN disk
    THEN None
    ELSE extract_url(disk[file_path])

\* glob.glob(os.path.join(dir, "*.txt")): the names of dir that end in .txt
\* and do not start with a dot, in the directory's listing order
fnmatch_txt(name) ==
    /\ Len(name) >= Len(TxtExt)
    /\ SubSeq(name, Len(name) - Len(TxtExt) + 1, Len(name)) = TxtExt
    /\ name[1] # "."

\* The listing order of a directory: fixed for a given set of names (scraped
\* files first, output files after).
FileNames == <<<<"a",".","t","x","t">>, <<"b",".","t","x","t">>, <<"c",".","t","x","t">>, <<"d",".","t","x","t">>, <<"e",".","t","x","t">>>>
NotesName == <<"n","o","t","e","s",".","m","d">>
ListingOrder ==
    FileNames \o <<NotesName>>
    \o [i \in 1..Len(ShippedPatterns) |-> ShippedPatterns[i].name \o TxtExt]
    \o <<OtherName>>

RECURSIVE listdir(_, _)
listdir(dir, i) ==
    IF i > Len(ListingOrder) THEN <<>>
    ELSE (IF join(dir, ListingOrder[i]) \in DOMAIN disk
          THEN <<ListingOrder[i]>> ELSE <<>>) \o listdir(dir, i + 1)

glob(dir) ==
    LET names == listdir(dir, 1)
        hits  == {i \in 1..Len(names) : fnmatch_txt(names[i])}
        RECURSIVE pick(_)
        pick(i) == IF i > Len(names) THEN <<>>
                   ELSE (IF i \in hits THEN <<join(dir, names[i])>> ELSE <<>>) \o pick(i + 1)
    IN  pick(1)

(***************************************************************************)
(* The input directory: NumFiles scraped files, each with one of these     *)
(* texts, and one file that is no *.txt.                                   *)
(***************************************************************************)
\* "Source URL: https://docs.n8n.io/integrations/builtin/core-nodes/x\nHELLO"
FileCore == SourceTag \o Base \o CoreNodes \o <<"/","x","\n","H","E","L","L","O">>
\* "Source URL: https://docs.n8n.io/integrations/builtin/credentials/y\nWORLD"
FileCred == SourceTag \o Base \o Credentials \o <<"/","y","\n","W","O","R","L","D">>
\* "no source line here"
FileNoSource == <<"n","o"," ","s","o","u","r","c","e"," ","l","i","n","e"," ","h","e","r","e">>
\* the first line indented: "  Source URL: https://.../core-nodes/x\nHELLO"
FileIndented == <<" "," ">> \o FileCore
\* an empty first line before the source line
FileEmptyFirst == <<"\n">> \o FileCred
\* nothing after the tag: "Source URL: \nHELLO"
FileEmptyRest == SourceTag \o <<"\n","H","E","L","L","O">>

FileContents == {FileCore, FileCred, FileNoSource, FileIndented, FileEmptyFirst, FileEmptyRest}

InputPaths(dir, n) == {join(dir, FileNames[i]) : i \in 1..n}

NoPath == join("", <<>>)
Line(kind, name, path, n) == [kind |-> kind, name |-> name, path |-> path, n |-> n]

\* the state once TextFileCombiner("docs", output_dir) is constructed, with n
\* scraped files in docs; a file that cannot be read at all fails in both
\* phases, one that fails while it is read whole fails in the write phase
InitWith(n, output_dirs) ==
    /\ url_patterns = ShippedPatterns
    /\ input_dir = "docs"
    /\ output_dir \in output_dirs
    /\ disk \in {f @@ (join("docs", NotesName) :> FileNoSource) :
                    f \in [InputPaths("docs", n) -> FileContents]}
    /\ write_fails \in SUBSET InputPaths("docs", n)
    /\ extract_fails \in SUBSET write_fails
    /\ pc = "main"
    /\ runs = 0
    /\ text_files = <<>>
    /\ idx = 1
    /\ grouped_files = <<>>
    /\ other_files = <<>>
    /\ gidx = 1
    /\ console = <<>>
    /\ opened = <<>>
    /\ copied = <<>>
    /\ snapshot = disk
    /\ arg = None
    /\ ret = None

\* the entry point's directories: docs and combined_docs
Init == InitWith(NumFiles, {"combined_docs"})

\* any configuration of the two directories, the same one included
InitRerun == InitWith(RerunFiles, {"combined_docs", "docs"})

(***************************************************************************)
(* combine_files                                                           *)
(***************************************************************************)
\* lines 83-88: the locals, the glob and the "Found ..." line
Enumerate ==
    /\ pc = "main"
    /\ text_files' = glob(input_dir)
    /\ grouped_files' = <<>>
    /\ other_files' = <<>>
    /\ console' = <<Line("found", <<>>, NoPath, Len(text_files'))>>
    /\ idx' = 1
    /\ gidx' = 1
    /\ opened' = <<>>
    /\ copied' = <<>>
    /\ snapshot' = disk
    /\ pc' = "scan"
    /\ UNCHANGED <<url_patterns, input_dir, output_dir, disk, extract_fails,
                   write_fails, runs, arg, ret>>

\* grouped_files[group].append(entry) on a defaultdict(list)
dict_append(d, group, entry) ==
    IF \E i \in 1..Len(d) : d[i].group = group
    THEN [i \in 1..Len(d) |->
            IF d[i].group = group
            THEN [d[i] EXCEPT !.files = Append(@, entry)] ELSE d[i]]
    ELSE Append(d, [group |-> group, files |-> <<entry>>])

\* the file goes to "other" whatever its group
classify_into_other(group, entry) ==
    /\ other_files' = Append(other_files, entry)
    /\ grouped_files' = grouped_files

\* the file goes to its group and to "other" as well
classify_into_both(group, entry) ==
    /\ other_files' = Append(other_files, entry)
    /\ grouped_files' = IF group # None
                        THEN dict_append(grouped_files, group, entry)
                        ELSE grouped_files

\* lines 95-98: "if group: ... else: ..."
classify_into(group, entry) ==
    IF group # None
    THEN /\ grouped_files' = dict_append(grouped_files, group, entry)
         /\ other_files' = other_files
    ELSE /\ other_files' = Append(other_files, entry)
         /\ grouped_files' = grouped_files

\* get_source_url without its try/except: the exception ends combine_files
scan_step_uncaught(file_path) ==
    LET raised == file_path \in extract_fails \/ file_path \notin DOMAIN disk
        url    == get_source_url(file_path)
        group  == get_file_group(url)
    IN  IF raised
        THEN /\ console' = Append(console, Line("traceback", <<>>, file_path, 0))
             /\ pc' = "main"
             /\ runs' = runs + 1
             /\ UNCHANGED <<grouped_files, other_files, idx>>
        ELSE /\ console' = console
             /\ classify_into(group, <<file_path, url>>)
             /\ idx' = idx + 1
             /\ UNCHANGED <<pc, runs>>

\* lines 92-98: the body of "for file_path in text_files"
scan_step(file_path) ==
    LET raised == file_path \in extract_fails \/ file_path \notin DOMAIN disk
        url    == get_source_url(file_path)
        group  == get_file_group(url)
    IN  /\ console' = IF raised
                      THEN Append(console, Line("error_reading", <<>>, file_path, 0))
                      ELSE console
        /\ classify_into(group, <<file_path, url>>)
        /\ idx' = idx + 1
        /\ UNCHANGED <<pc, runs>>

\* lines 91-98: one iteration of "for file_path in text_files"
ScanFile ==
    /\ pc = "scan"
    /\ idx <= Len(text_files)
    /\ scan_step(text_files[idx])
    /\ UNCHANGED <<url_patterns, input_dir, output_dir, disk, extract_fails,
                   write_fails, text_files, gidx, opened, copied,
                   snapshot, arg, ret>>

\* the first loop is exhausted
ScanDone ==
    /\ pc = "scan"
    /\ idx > Len(text_files)
    /\ pc' = "write"
    /\ UNCHANGED <<url_patterns, input_dir, output_dir, disk, extract_fails,
                   write_fails, runs, text_files, idx, grouped_files,
                   other_files, gidx, console, opened, copied, snapshot, arg, ret>>

\* the text of a file made of the given write() calls
RECURSIVE Flatten(_)
Flatten(chunks) ==
    IF chunks = <<>> THEN <<>> ELSE Head(chunks) \o Flatten(Tail(chunks))

\* open(output_file, 'w'): the text the file holds once opened
open_a(output_file) ==
    IF output_file \in DOMAIN disk THEN disk[output_file] ELSE <<>>

open_w(output_file) == <<>>

\* A file being written holds, for a reader, what the stream has flushed so
\* far: the text at open() and the first `flushed` write() calls.
on_disk(st, flushed) ==
    LET k == IF flushed < Len(st.chunks) THEN flushed ELSE Len(st.chunks)
    IN  st.base \o Flatten(SubSeq(st.chunks, 1, k))

\* without the try/except: the first failing member ends the loop
write_members_uncaught(files, i, output_file, st, flushed) ==
    LET bad == {k \in i..Len(files) : files[k][1] \in write_fails}
        RECURSIVE copy(_, _)
        copy(k, acc) ==
            IF k > Len(files) \/ k \in bad THEN acc
            ELSE copy(k + 1,
                   [acc EXCEPT !.chunks = @ \o <<Separator, disk[files[k][1]], Separator>>,
                               !.copied = Append(@, [path |-> files[k][1],
                                                     out |-> output_file,
                                                     content |-> disk[files[k][1]]])])
    IN  IF bad = {} THEN copy(i, st)
        ELSE [copy(i, st) EXCEPT !.errors = Append(@, files[SetMin(bad)][1])]

\* the member's text without its "Source URL" line
write_members_body_only(files, i, output_file, st, flushed) ==
    LET RECURSIVE copy(_, _)
        copy(k, acc) ==
            IF k > Len(files) THEN acc
            ELSE IF files[k][1] \in write_fails
            THEN copy(k + 1, [acc EXCEPT !.errors = Append(@, files[k][1])])
            ELSE LET text == disk[files[k][1]]
                     body == SubSeq(text, Len(readline(text)) + 1, Len(text))
                 IN  copy(k + 1,
                       [acc EXCEPT !.chunks = @ \o <<Separator, body, Separator>>,
                                   !.copied = Append(@, [path |-> files[k][1],
                                                         out |-> output_file,
                                                         content |-> body])])
    IN  copy(i, st)

\* lines 109-119 and 130-140: "for file_path, url in files", from member i on.
\* st is the output stream (base, chunks), the errors printed and the
\* members copied so far.
RECURSIVE write_members(_, _, _, _, _)
write_members(files, i, output_file, st, flushed) ==
    IF i > Len(files) THEN st
    ELSE
      LET file_path == files[i][1]
          raised    == file_path \in write_fails
                       \/ (file_path \notin DOMAIN disk /\ file_path # output_file)
          content   == IF file_path = output_file
                       THEN on_disk(st, flushed)
                       ELSE disk[file_path]
      IN  IF raised
          THEN write_members(files, i + 1, output_file,
                 [st EXCEPT !.errors = Append(@, file_path)], flushed)
          ELSE write_members(files, i + 1, output_file,
                 [st EXCEPT !.chunks = @ \o <<Separator, content, Separator>>,
                            !.copied = Append(@, [path |-> file_path,
                                                  out |-> output_file,
                                                  content |-> content])],
                 flushed)

\* the flush points a reader of the open output file can observe
FlushChoices(files, output_file) ==
    IF \E i \in 1..Len(files) : files[i][1] = output_file
    THEN 0..(3 * Len(files) + 1)
    ELSE {0}

\* "with open(output_file, 'w') as out_f": header, members, close
write_output(output_file, header, files, flushed) ==
    LET st0 == [base |-> open_w(output_file), chunks |-> <<header>>,
                errors |-> <<>>, copied |-> <<>>]
        st  == write_members(files, 1, output_file, st0, flushed)
    IN  /\ disk' = [p \in DOMAIN disk \cup {output_file} |->
                      IF p = output_file THEN st.base \o Flatten(st.chunks)
                      ELSE disk[p]]
        /\ opened' = Append(opened, output_file)
        /\ copied' = copied \o st.copied
        /\ console' = console
              \o <<Line("creating", <<>>, output_file, Len(files))>>
              \o [k \in 1..Len(st.errors) |->
                    Line("error_processing", <<>>, st.errors[k], 0)]

\* lines 101-119: one iteration of "for group_name, files in grouped_files.items()"
WriteGroup ==
    /\ pc = "write"
    /\ gidx <= Len(grouped_files)
    /\ LET group_name  == grouped_files[gidx].group
           files       == grouped_files[gidx].files
           output_file == join(output_dir, group_name \o TxtExt)
       IN  \E flushed \in FlushChoices(files, output_file) :
              write_output(output_file, GroupHeaderL \o group_name \o GroupHeaderR,
                           files, flushed)
    /\ gidx' = gidx + 1
    /\ UNCHANGED <<url_patterns, input_dir, output_dir, extract_fails,
                   write_fails, pc, runs, text_files, idx, grouped_files,
                   other_files, snapshot, arg, ret>>

\* other_content.txt written without the "if other_files:" test
WriteOther_unguarded ==
    /\ pc = "write"
    /\ gidx > Len(grouped_files)
    /\ LET output_file == join(output_dir, OtherName)
       IN  \E flushed \in FlushChoices(other_files, output_file) :
              write_output(output_file, OtherHeader, other_files, flushed)
    /\ pc' = "summary"
    /\ UNCHANGED <<url_patterns, input_dir, output_dir, extract_fails,
                   write_fails, runs, text_files, idx, grouped_files,
                   other_files, gidx, snapshot, arg, ret>>

\* lines 122-140: "if other_files:" and the other_content.txt it writes
WriteOther ==
    /\ pc = "write"
    /\ gidx > Len(grouped_files)
    /\ IF other_files # <<>>
       THEN LET output_file == join(output_dir, OtherName)
            IN  \E flushed \in FlushChoices(other_files, output_file) :
                   write_output(output_file, OtherHeader, other_files, flushed)
       ELSE UNCHANGED <<disk, opened, copied, console>>
    /\ pc' = "summary"
    /\ UNCHANGED <<url_patterns, input_dir, output_dir, extract_fails,
                   write_fails, runs, text_files, idx, grouped_files,
                   other_files, gidx, snapshot, arg, ret>>

OtherLabel == <<"o","t","h","e","r","_","c","o","n","t","e","n","t">>

\* the number of files found printed for "other"
summary_lines_total(grouped, other) ==
    [k \in 1..Len(grouped) |->
        Line("summary", grouped[k].group, NoPath, Len(grouped[k].files))]
    \o <<Line("summary", OtherLabel, NoPath, Len(text_files))>>

\* lines 144-146: "- <group>: <n> files" for each group, then other_content
summary_lines(grouped, other) ==
    [k \in 1..Len(grouped) |->
        Line("summary", grouped[k].group, NoPath, Len(grouped[k].files))]
    \o <<Line("summary", OtherLabel, NoPath, Len(other))>>

\* lines 143-146: the summary; combine_files returns
Summary ==
    /\ pc = "summary"
    /\ console' = console
          \o <<Line("complete", <<>>, NoPath, 0)>>
          \o summary_lines(grouped_files, other_files)
    /\ runs' = runs + 1
    /\ pc' = "main"
    /\ UNCHANGED <<url_patterns, input_dir, output_dir, disk, extract_fails,
                   write_fails, text_files, idx, grouped_files, other_files,
                   gidx, opened, copied, snapshot, arg, ret>>

\* __main__: the program is run once
Main == runs = 0 /\ Enumerate

\* the program is run again on the directories it left
Rerun == runs < MaxRuns /\ Enumerate

Next == Main \/ ScanFile \/ ScanDone \/ WriteGroup \/ WriteOther \/ Summary

Spec == Init /\ [][Next]_vars

NextRerun == Rerun \/ ScanFile \/ ScanDone \/ WriteGroup \/ WriteOther \/ Summary

SpecRerun == InitRerun /\ [][NextRerun]_vars

(***************************************************************************)
(* get_file_group called directly, on URLs around the registered prefixes. *)
(***************************************************************************)
TailChars == {"x", "/"}

RECURSIVE Tails(_)
Tails(n) ==
    IF n = 0 THEN {<<>>}
    ELSE LET shorter == Tails(n - 1)
         IN  shorter \cup {Append(t, c) : t \in {u \in shorter : Len(u) = n - 1}, c \in TailChars}

Tables == {ShippedPatterns, OverlappingPatterns}

UrlInputs ==
    LET prefixes == UNION {{t[i].pattern : i \in 1..Len(t)} : t \in Tables}
    IN  {None, <<>>}
        \cup UNION {{SubSeq(q, 1, k) : k \in 0..Len(q)} : q \in prefixes}
        \cup {q \o t : q \in prefixes, t \in Tails(MaxTail)}
        \cup {<<"x">> \o q : q \in prefixes}

InitClassify ==
    /\ url_patterns \in Tables
    /\ arg \in UrlInputs
    /\ ret = None
    /\ pc = "call"
    /\ input_dir = "docs"
    /\ output_dir = "combined_docs"
    /\ disk = <<>>
    /\ extract_fails = {}
    /\ write_fails = {}
    /\ runs = 0
    /\ text_files = <<>>
    /\ idx = 1
    /\ grouped_files = <<>>
    /\ other_files = <<>>
    /\ gidx = 1
    /\ console = <<>>
    /\ opened = <<>>
    /\ copied = <<>>
    /\ snapshot = <<>>

\* lines 59-76: group = self.get_file_group(arg)
CallGetFileGroup ==
    /\ pc = "call"
    /\ ret' = get_file_group(arg)
    /\ pc' = "return"
    /\ UNCHANGED <<url_patterns, input_dir, output_dir, disk, extract_fails,
                   write_fails, runs, text_files, idx, grouped_files,
                   other_files, gidx, console, opened, copied, snapshot, arg>>

NextClassify == CallGetFileGroup

SpecClassify == InitClassify /\ [][NextClassify]_vars

(***************************************************************************)
(* The properties.  What they expect of a file is computed here from the   *)
(* text of the file, independently of the operators above.                 *)
(***************************************************************************)
\* p is a literal prefix of the str u
IsLiteralPrefix(p, u) == Len(p) <= Len(u) /\ \A i \in 1..Len(p) : u[i] = p[i]

\* the first line of a text, without its line end
RECURSIVE LineLength(_, _)
LineLength(text, k) ==
    IF k < Len(text) /\ text[k + 1] # "\n" THEN LineLength(text, k + 1) ELSE k

FirstLine(text) == SubSeq(text, 1, LineLength(text, 0))

Blank(c) == c = " " \/ c = "\t" \/ c = "\n" \/ c = "\r"

RECURSIVE TrimRight(_)
TrimRight(l) ==
    IF l # <<>> /\ Blank(l[Len(l)]) THEN TrimRight(SubSeq(l, 1, Len(l) - 1)) ELSE l

RECURSIVE TrimLeft(_)
TrimLeft(l) ==
    IF l # <<>> /\ Blank(l[1]) THEN TrimLeft(Tail(l)) ELSE l

\* l is "Source URL: <rest>" with a non-empty <rest>
IsSourceLine(l) == IsLiteralPrefix(SourceTag, l) /\ Len(l) > Len(SourceTag)

RestOf(l) == SubSeq(l, Len(SourceTag) + 1, Len(l))

\* the bucket a URL belongs to under the table
ExpectedGroup(url) ==
    LET m == {i \in 1..Len(url_patterns) : IsLiteralPrefix(url_patterns[i].pattern, url)}
    IN  IF m = {} THEN OtherLabel ELSE url_patterns[SetMin(m)].name

\* the bucket a text belongs to
ExpectedBucketOfText(text) ==
    LET l == TrimLeft(TrimRight(FirstLine(text)))
    IN  IF IsSourceLine(l) THEN ExpectedGroup(RestOf(l)) ELSE OtherLabel

\* the bucket a discovered file belongs to
ExpectedBucket(path) ==
    IF path \in extract_fails THEN OtherLabel ELSE ExpectedBucketOfText(disk[path])

\* the buckets combine_files has put a file in, and the URLs recorded with it
BucketsOf(path) ==
    {grouped_files[g].group : g \in {h \in 1..Len(grouped_files) :
        \E k \in 1..Len(grouped_files[h].files) : grouped_files[h].files[k][1] = path}}
    \cup (IF \E k \in 1..Len(other_files) : other_files[k][1] = path
          THEN {OtherLabel} ELSE {})

\* the output file of a bucket
OutputOf(bucket) ==
    IF bucket = OtherLabel THEN join(output_dir, OtherName)
    ELSE join(output_dir, bucket \o TxtExt)

Discovered == {text_files[i] : i \in 1..Len(text_files)}
RunComplete == pc = "main" /\ runs >= 1
\* the files of the first loop's completed iterations
Classified == {text_files[i] : i \in 1..(IF pc = "scan" THEN idx - 1 ELSE Len(text_files))}

\* C3: get_file_group returns the first group, in declaration order, whose
\* prefix is a literal prefix of the URL (a URL equal to a prefix matches),
\* and None exactly when the URL is None or no prefix matches.
C3_FirstPrefixInDeclarationOrder ==
    pc = "return" =>
        LET m == IF arg = None THEN {}
                 ELSE {i \in 1..Len(url_patterns) :
                          IsLiteralPrefix(url_patterns[i].pattern, arg)}
        IN  IF m = {} THEN ret = None
            ELSE ret = url_patterns[SetMin(m)].name

\* a URL equal to the first prefix of a table where a later prefix matches too
C3_Witness ==
    /\ pc = "return"
    /\ arg = url_patterns[1].pattern
    /\ Cardinality({i \in 1..Len(url_patterns) :
                       IsLiteralPrefix(url_patterns[i].pattern, arg)}) = 2
    /\ ret = url_patterns[1].name

\* the text get_source_url reads from a classified file
TextOf(path) == disk[path]

\* a classified file is in the "other" bucket, with no URL, and in no group
InOtherWithoutUrl(path) ==
    /\ BucketsOf(path) = {OtherLabel}
    /\ \E k \in 1..Len(other_files) : other_files[k] = <<path, None>>

\* C4 as stated: a file whose first line, with only trailing whitespace
\* stripped, is no "Source URL: <rest>" line has no URL and is in "other".
C4_TrailingStripOnly ==
    \A path \in Classified :
        (path \notin extract_fails
         /\ ~IsSourceLine(TrimRight(FirstLine(TextOf(path)))))
        => InOtherWithoutUrl(path)

\* C4 amended: a file whose first line, with leading and trailing whitespace
\* stripped, is no "Source URL: <rest>" line has no URL and is in "other";
\* an indented "Source URL: <rest>" line does give a URL.
C4_NoSourceLineGoesToOther ==
    \A path \in Classified :
        path \notin extract_fails =>
            LET l == TrimLeft(TrimRight(FirstLine(TextOf(path))))
            IN  /\ ~IsSourceLine(l) => InOtherWithoutUrl(path)
                /\ IsSourceLine(l) =>
                      \/ \E k \in 1..Len(other_files) :
                            other_files[k] = <<path, RestOf(l)>>
                      \/ \E g \in 1..Len(grouped_files) :
                            \E k \in 1..Len(grouped_files[g].files) :
                               grouped_files[g].files[k] = <<path, RestOf(l)>>

\* files with an empty first line, with nothing after the tag and with no
\* source line at all have been classified, and an indented source line too
C4_Witness ==
    /\ pc = "write"
    /\ \E p \in Classified : p \notin extract_fails /\ FirstLine(TextOf(p)) = <<>>
                             /\ InOtherWithoutUrl(p)
    /\ \E p \in Classified : p \notin extract_fails
                             /\ TrimRight(FirstLine(TextOf(p))) = TrimRight(SourceTag)
                             /\ InOtherWithoutUrl(p)
    /\ \E p \in Classified : p \notin extract_fails
                             /\ FirstLine(TextOf(p)) # <<>>
                             /\ Blank(FirstLine(TextOf(p))[1])
                             /\ IsSourceLine(TrimLeft(FirstLine(TextOf(p))))
                             /\ BucketsOf(p) = {CoreNodes}

\* C6: a read failure in get_source_url puts the file in "other" with no
\* URL, and every file, before and after it, is in exactly the bucket its
\* own text decides; once the first loop is over no file is left out.
C6_ExtractionFailureIsNotFatal ==
    /\ \A path \in Classified :
          /\ path \in extract_fails => InOtherWithoutUrl(path)
          /\ path \notin extract_fails =>
                BucketsOf(path) = {ExpectedBucketOfText(TextOf(path))}
    /\ \A path \in Discovered \ Classified : BucketsOf(path) = {}
    /\ pc # "scan" =>
          Len(other_files) + Cardinality({<<g, k>> \in (1..Len(grouped_files)) \X (1..Len(text_files)) :
                                             k <= Len(grouped_files[g].files)})
             = Len(text_files)

\* the first file failed in get_source_url and a later one is in a group
C6_Witness ==
    /\ pc = "write"
    /\ text_files[1] \in extract_fails
    /\ InOtherWithoutUrl(text_files[1])
    /\ \E i \in 2..Len(text_files) :
          /\ text_files[i] \notin extract_fails
          /\ BucketsOf(text_files[i]) = {Credentials}
    /\ \E k \in 1..Len(console) :
          console[k].kind = "error_reading" /\ console[k].path = text_files[1]

\* the reads of a file that were written to an output, as indices of copied
CopiesOf(path) == {k \in 1..Len(copied) : copied[k].path = path}

\* block occurs in text
Contains(text, block) ==
    \E o \in 0..(Len(text) - Len(block)) : \A i \in 1..Len(block) : text[o + i] = block[i]

\* a member as it stands in an output file: "\n" + 80 "=" + "\n" around it
Enclosed(content) ==
    <<"\n">> \o [i \in 1..80 |-> "="] \o <<"\n">> \o content
    \o <<"\n">> \o [i \in 1..80 |-> "="] \o <<"\n">>

\* C1: after a run, every discovered file that is readable at write time is
\* a member of exactly one output file, the one of its bucket, which holds
\* its content; a discovered file is in no output exactly when its read fails
\* in the write phase.
C1_Partition ==
    RunComplete =>
        \A path \in Discovered :
            IF path \in write_fails
            THEN CopiesOf(path) = {}
            ELSE \E k \in 1..Len(copied) :
                    /\ CopiesOf(path) = {k}
                    /\ copied[k].out = OutputOf(ExpectedBucket(path))
                    /\ copied[k].out \in DOMAIN disk
                    /\ Contains(disk[copied[k].out], Enclosed(copied[k].content))
                    /\ path # copied[k].out => copied[k].content = disk[path]

\* a run where one file is in a group's output, one in other_content.txt and
\* one, unreadable, in none
C1_Witness ==
    /\ RunComplete
    /\ \E p \in Discovered : p \in write_fails /\ CopiesOf(p) = {}
    /\ \E p \in Discovered : \E k \in CopiesOf(p) :
          copied[k].out = join(output_dir, CoreNodes \o TxtExt)
    /\ \E p \in Discovered : \E k \in CopiesOf(p) :
          copied[k].out = join(output_dir, OtherName)

\* C2 as stated: after a run every input file has been written to exactly
\* one output, whatever the read outcomes.
C2_ExactlyOneAccumulator ==
    RunComplete =>
        \A path \in Discovered :
            Cardinality({copied[k].out : k \in CopiesOf(path)}) = 1

\* C2 amended: every input file is in exactly one bucket and is written to
\* at most one output: to one when its read in the write phase succeeds, to
\* none when it fails.
C2_AtMostOneAccumulator ==
    /\ \A path \in Discovered :
          /\ Cardinality(BucketsOf(path)) <= 1
          /\ Cardinality(CopiesOf(path)) <= 1
    /\ RunComplete =>
          \A path \in Discovered :
              /\ Cardinality(BucketsOf(path)) = 1
              /\ Cardinality(CopiesOf(path)) = IF path \in write_fails THEN 0 ELSE 1
              /\ \A k \in CopiesOf(path) : copied[k].out = OutputOf(CHOOSE b \in BucketsOf(path) : TRUE)

\* a run that wrote one file of a group and skipped another, unreadable one
C2_Witness ==
    /\ RunComplete
    /\ \E p, q \in Discovered :
          /\ BucketsOf(p) = {CoreNodes} /\ p \in write_fails /\ CopiesOf(p) = {}
          /\ BucketsOf(q) = {CoreNodes} /\ Cardinality(CopiesOf(q)) = 1

\* the output files of the program
OutputPaths ==
    {join(output_dir, ShippedPatterns[i].name \o TxtExt) : i \in 1..Len(ShippedPatterns)}
    \cup {join(output_dir, OtherName)}

SameOutputs(d, e) ==
    \A p \in OutputPaths :
        /\ p \in DOMAIN d <=> p \in DOMAIN e
        /\ p \in DOMAIN d => d[p] = e[p]

\* C5 as stated: for every configuration of the directories, a second run on
\* unchanged input files leaves the output files as the first run left them.
C5_Idempotent ==
    (pc = "main" /\ runs >= 2) => SameOutputs(disk, snapshot)

\* C5 amended: when output_dir is another directory than input_dir, a second
\* run leaves the output files byte-identical to those of the first run.
C5_IdempotentInSeparateDirs ==
    (pc = "main" /\ runs >= 2 /\ output_dir # input_dir) => SameOutputs(disk, snapshot)

\* a second run that rewrote a group's file and other_content.txt
C5_Witness ==
    /\ pc = "main" /\ runs = 2 /\ output_dir # input_dir
    /\ Len(opened) = 2
    /\ join(output_dir, OtherName) \in DOMAIN snapshot
    /\ \A k \in 1..Len(opened) :
          opened[k] \in DOMAIN snapshot /\ disk[opened[k]] = snapshot[opened[k]]
    /\ copied # <<>>

\* the non-empty buckets of the run, each with its output file and header
Buckets ==
    {[out    |-> join(output_dir, grouped_files[g].group \o TxtExt),
      files  |-> grouped_files[g].files,
      header |-> GroupHeaderL \o grouped_files[g].group \o GroupHeaderR] :
        g \in 1..Len(grouped_files)}
    \cup (IF other_files = <<>> THEN {}
          ELSE {[out |-> join(output_dir, OtherName), files |-> other_files,
                 header |-> OtherHeader]})

\* the members of a bucket whose read succeeds in the write phase, in order
RECURSIVE ReadableMembers(_)
ReadableMembers(files) ==
    IF files = <<>> THEN <<>>
    ELSE (IF Head(files)[1] \in write_fails THEN <<>> ELSE <<Head(files)[1]>>)
         \o ReadableMembers(Tail(files))

\* the reads written to an output file, in order
RECURSIVE CopiedTo(_, _)
CopiedTo(out, k) ==
    IF k > Len(copied) THEN <<>>
    ELSE (IF copied[k].out = out THEN <<copied[k]>> ELSE <<>>) \o CopiedTo(out, k + 1)

RECURSIVE TotalLength(_)
TotalLength(entries) ==
    IF entries = <<>> THEN 0
    ELSE Len(Enclosed(Head(entries).content)) + TotalLength(Tail(entries))

RECURSIVE Rendered(_)
Rendered(entries) ==
    IF entries = <<>> THEN <<>>
    ELSE Enclosed(Head(entries).content) \o Rendered(Tail(entries))

Opened == {opened[k] : k \in 1..Len(opened)}

\* C7: a read failure in the write phase leaves no trace of the file: the
\* output of every bucket is opened and holds exactly the readable members
\* of the bucket, those after a failed one and those of later buckets
\* included, and nothing but the header and the readable members.
C7_WriteFailureSkipsOnlyThatFile ==
    RunComplete =>
        \A b \in Buckets :
            LET done == CopiedTo(b.out, 1)
            IN  /\ b.out \in Opened
                /\ b.out \in DOMAIN disk
                /\ [k \in 1..Len(done) |-> done[k].path] = ReadableMembers(b.files)
                /\ Len(disk[b.out]) = Len(b.header) + TotalLength(done)
                /\ \A m \in 1..Len(b.files) :
                      b.files[m][1] \in write_fails =>
                         /\ CopiesOf(b.files[m][1]) = {}
                         /\ \E c \in 1..Len(console) :
                               /\ console[c].kind = "error_processing"
                               /\ console[c].path = b.files[m][1]

\* the first member of a group failed, the second was written, and so was a
\* member of the "other" bucket, processed later
C7_Witness ==
    /\ RunComplete
    /\ Len(grouped_files) = 1
    /\ Len(grouped_files[1].files) = 2
    /\ grouped_files[1].files[1][1] \in write_fails
    /\ Cardinality(CopiesOf(grouped_files[1].files[2][1])) = 1
    /\ Len(other_files) = 1
    /\ Cardinality(CopiesOf(other_files[1][1])) = 1

\* the output files the discovered files call for
ExpectedOutputs == {OutputOf(ExpectedBucket(p)) : p \in Discovered}

\* C8: the output file of a bucket is opened if and only if a discovered
\* file belongs to the bucket, also when none of its members can be read;
\* no output file is created for an empty bucket.
C8_OutputOpenedIffBucketNonEmpty ==
    /\ \A k \in 1..Len(opened) :
          /\ opened[k] \in ExpectedOutputs
          /\ opened[k] \in DOMAIN disk
          /\ \A j \in 1..Len(opened) : opened[j] = opened[k] => j = k
    /\ (pc = "summary" \/ RunComplete) =>
          /\ Opened = ExpectedOutputs
          /\ \A p \in OutputPaths \ ExpectedOutputs :
                p \notin DOMAIN snapshot => p \notin DOMAIN disk

\* a group's output holds its header alone, all its members being unreadable,
\* and there is no other_content.txt, no file being unmatched
C8_Witness ==
    /\ RunComplete
    /\ \E b \in Buckets :
          /\ \A m \in 1..Len(b.files) : b.files[m][1] \in write_fails
          /\ b.out \in Opened
          /\ disk[b.out] = b.header
    /\ other_files = <<>>
    /\ join(output_dir, OtherName) \notin DOMAIN disk

\* the "- <name>: <n> files" lines of the console
SummaryLines == SelectSeq(console, LAMBDA l : l.kind = "summary")

RECURSIVE SumOfCounts(_)
SumOfCounts(lines) ==
    IF lines = <<>> THEN 0 ELSE Head(lines).n + SumOfCounts(Tail(lines))

CountIn(bucket) ==
    Cardinality({i \in 1..Len(text_files) : ExpectedBucket(text_files[i]) = bucket})

GroupNames == {ShippedPatterns[i].name : i \in 1..Len(ShippedPatterns)}

IsScenario ==
    /\ Len(text_files) = 3
    /\ {disk[p] : p \in Discovered} = {FileCore, FileCred, FileNoSource}
    /\ extract_fails = {}

\* C9: the summary gives, for every non-empty group and for other_content,
\* the number of discovered files of that bucket; the counts add up to the
\* number of files found; the three-file scenario gives core-nodes: 1,
\* credentials: 1, other_content: 1.
C9_SummaryCounts ==
    RunComplete =>
        /\ \A g \in GroupNames :
              Cardinality({k \in 1..Len(SummaryLines) : SummaryLines[k].name = g})
                 = IF CountIn(g) > 0 THEN 1 ELSE 0
        /\ Cardinality({k \in 1..Len(SummaryLines) : SummaryLines[k].name = OtherLabel}) = 1
        /\ \A k \in 1..Len(SummaryLines) :
              SummaryLines[k].n = CountIn(SummaryLines[k].name)
        /\ console[1].kind = "found"
        /\ console[1].n = Cardinality({p \in DOMAIN snapshot :
                               p.dir = input_dir /\ IsLiteralPrefix(<<"t","x","t",".">>,
                                   [i \in 1..Len(p.name) |-> p.name[Len(p.name) + 1 - i]])})
        /\ SumOfCounts(SummaryLines) = console[1].n
        /\ IsScenario =>
              {<<SummaryLines[k].name, SummaryLines[k].n>> : k \in 1..Len(SummaryLines)}
                 = {<<CoreNodes, 1>>, <<Credentials, 1>>, <<OtherLabel, 1>>}

\* the three-file scenario has run
C9_Witness ==
    /\ RunComplete
    /\ IsScenario
    /\ Len(SummaryLines) = 3
    /\ SummaryLines[3].name = OtherLabel /\ SummaryLines[3].n = 1

\* the position of a discovered file in the enumeration
PositionOf(path) == CHOOSE i \in 1..Len(text_files) : text_files[i] = path

\* C10: every output file is its header followed by its members in the order
\* of the enumeration, each the full text of the file, source line included,
\* between a line of 80 "=" before it and one after it.
C10_HeaderThenMembersInOrder ==
    RunComplete =>
        \A b \in Buckets :
            LET done == CopiedTo(b.out, 1)
            IN  /\ disk[b.out] = b.header \o Rendered(done)
                /\ \A j, k \in 1..Len(done) :
                      j < k => PositionOf(done[j].path) < PositionOf(done[k].path)
                /\ \A k \in 1..Len(done) :
                      done[k].path # b.out => done[k].content = snapshot[done[k].path]

\* two members of one group were written, in the order of the enumeration
C10_Witness ==
    /\ RunComplete
    /\ \E b \in Buckets :
          LET done == CopiedTo(b.out, 1)
          IN  /\ Len(done) = 2
              /\ done[1].path = text_files[1]
              /\ done[2].path = text_files[3]
              /\ done[1].content # done[2].content
              /\ IsSourceLine(FirstLine(done[2].content))
              /\ disk[b.out] = b.header \o Enclosed(done[1].content) \o Enclosed(done[2].content)

====
